---- MODULE Spec2Model ----
(***************************************************************************)
(* A model of cli_manager.CLIManager: the registry kept in commands.json,  *)
(* the registration API working on it by load / modify / save, and the     *)
(* dispatcher that maps a parsed (module, command) selection to a handler. *)
(*                                                                         *)
(* Python values are represented as follows.                               *)
(*   None            the string None (no name of the model collides)       *)
(*   str             a TLA+ string; "" is the empty (falsy) string         *)
(*   handler string  a sequence of one-character strings, so that          *)
(*                   rsplit(":", 1) can be computed                        *)
(*   dict (registry) a sequence of [key, val] items in insertion order     *)
(*   dataclass, dict entry   a record                                      *)
(***************************************************************************)
EXTENDS Integers, Sequences, FiniteSets, TLC

VARIABLES
    file,   \* the backing record commands.json
    last,   \* the last operation: its arguments, return value, exception
    procs   \* the steps of the processes working on the backing record

vars == <<file, last, procs>>

----------------------------------------------------------------------------
(* Bounds and input sets *)

MaxModules == 2

MaxArgs == 2

None == "None"

ModuleNames == {"a", "b", "x"}

ShortNames == {None, "", "x", "y"}

RefPlain == <<"f">>
RefOne == <<"m", ":", "f">>
RefTwo == <<"m", ":", "n", ":", "f">>

\* the fields of CommandArg, in the order of the dataclass
ArgFields ==
    {"name", "help", "short", "type", "required", "default", "nargs", "choices",
     "action"}

\* CommandArg(name, ...): field values are written as Python writes them
\* ("True", "False", "[]", "['p']"), None is the value None
CommandArg(name, short, type, required, default, nargs, choices, action) ==
    [name |-> name, help |-> "", short |-> short, type |-> type,
     required |-> required, default |-> default, nargs |-> nargs,
     choices |-> choices, action |-> action]

\* the defaults the dataclass gives to the fields after name
ArgDefaults ==
    [help |-> "", short |-> None, type |-> "str", required |-> "False",
     default |-> None, nargs |-> None, choices |-> None, action |-> None]

\* argument names are sequences of characters, so that startswith("-") can
\* be computed
NamePositional == <<"p">>
NameOption == <<"-", "-", "o">>

ArgNames == {NamePositional, NameOption}
ArgShorts == {None, "", "-o"}
ArgTypes == {"str", "path"}
ArgRequireds == {"False", "True"}
ArgDefaultValues == {None, "d"}
ArgNargs == {None, "?"}
ArgChoices == {None, "[]"}
ArgActions == {None, "", "store_true"}

\* the CommandArg objects a module may hand over
ArgInputs ==
    { CommandArg(n, s, t, r, d, g, c, a) :
        n \in ArgNames, s \in ArgShorts, t \in ArgTypes, r \in ArgRequireds,
        d \in ArgDefaultValues, g \in ArgNargs, c \in ArgChoices, a \in ArgActions }

ArgPlain == CommandArg(NamePositional, None, "str", "False", None, None, None, None)
ArgOption == CommandArg(NameOption, "-o", "str", "True", "d", None, None, None)
ArgFlag == CommandArg(NameOption, "", "str", "False", None, None, "[]", "store_true")

ArgSamples == {ArgPlain, ArgOption, ArgFlag}

Cmd(n, h, args) == [name |-> n, help |-> "", handler |-> h, args |-> args]

Payloads ==
    { [description |-> "v1", commands |-> <<Cmd("run", RefOne, <<>>)>>],
      [description |-> "v2",
       commands |-> <<Cmd("go", RefPlain, <<>>), Cmd("run", RefTwo, <<ArgFlag>>)>>] }

\* the ModuleRegistration objects handed to register_module
Registrations ==
    { [module_name |-> n, short_name |-> s,
       description |-> p.description, commands |-> p.commands] :
         n \in ModuleNames, s \in ShortNames, p \in Payloads }

NoRegistration ==
    [module_name |-> None, short_name |-> None, description |-> "", commands |-> <<>>]

----------------------------------------------------------------------------
(* Python helpers *)

\* truth value of an Optional[str]
Truthy(v) == v # None /\ v # ""

\* name.startswith("-")
StartsWithDash(name) == Len(name) > 0 /\ name[1] = "-"

Keys(registry) == [i \in 1..Len(registry) |-> registry[i].key]

KeySet(registry) == { registry[i].key : i \in 1..Len(registry) }

HasKey(registry, k) == k \in KeySet(registry)

IndexOf(registry, k) == CHOOSE i \in 1..Len(registry) : registry[i].key = k

\* registry[k]
GetItem(registry, k) == registry[IndexOf(registry, k)].val

\* a dict assignment that moves a present key to the end
SetItemMovesToEnd(registry, k, v) ==
    Append(SelectSeq(registry, LAMBDA it : it.key # k), [key |-> k, val |-> v])

\* a dict assignment that adds an item without looking for the key
SetItemAppends(registry, k, v) == Append(registry, [key |-> k, val |-> v])

\* registry[k] = v: a present key keeps its position, a new key goes last
SetItem(registry, k, v) ==
    IF HasKey(registry, k)
      THEN [registry EXCEPT ![IndexOf(registry, k)] = [key |-> k, val |-> v]]
      ELSE Append(registry, [key |-> k, val |-> v])

\* a deletion that also drops every item stored after the key
DelItemDropsTail(registry, k) == SubSeq(registry, 1, IndexOf(registry, k) - 1)

\* del registry[k]
DelItem(registry, k) ==
    LET i == IndexOf(registry, k)
    IN  SubSeq(registry, 1, i - 1) \o SubSeq(registry, i + 1, Len(registry))

----------------------------------------------------------------------------
(* Schema types *)

\* a to_dict that drops every falsy value
CommandArgToDictDropsFalsy(a) ==
    [k \in {f \in DOMAIN a : \A v \in {None, "", "False", "[]"} : a[f] # v} |-> a[k]]

\* CommandArg.to_dict: the fields whose value is not None
CommandArgToDict(a) ==
    [k \in {f \in DOMAIN a : a[f] # None} |-> a[k]]

CommandToDict(cmd) ==
    [name |-> cmd.name, help |-> cmd.help, handler |-> cmd.handler,
     args |-> [i \in 1..Len(cmd.args) |-> CommandArgToDict(cmd.args[i])]]

ModuleToDict(r) ==
    [module_name |-> r.module_name,
     short_name |-> r.short_name,
     description |-> r.description,
     commands |-> [i \in 1..Len(r.commands) |-> CommandToDict(r.commands[i])]]

\* CommandArg(**d): the constructor takes the keys of the record and the
\* dataclass defaults for the others
CommandArgFromDict(d) ==
    [k \in ArgFields |-> IF k \in DOMAIN d THEN d[k] ELSE ArgDefaults[k]]

\* Command(**d) with its args rebuilt
CommandFromDict(d) ==
    [name |-> d.name, help |-> d.help, handler |-> d.handler,
     args |-> [i \in 1..Len(d.args) |-> CommandArgFromDict(d.args[i])]]

\* ModuleRegistration(**d) with its commands rebuilt
ModuleFromDict(d) ==
    [module_name |-> d.module_name, short_name |-> d.short_name,
     description |-> d.description,
     commands |-> [i \in 1..Len(d.commands) |-> CommandFromDict(d.commands[i])]]

----------------------------------------------------------------------------
(* Registry store *)

\* The backing record.  kind is one of
\*   "absent"       no such file
\*   "ok"           a JSON object of module records, held in reg
\*   "empty"        an existing file of no bytes (a file just opened with "w")
\*   "malformed"    text that is not JSON
\*   "array"        JSON that is not an object: the array []
\*   "unreadable"   open() fails with an OSError
\*   "undecodable"  bytes that are not text in the reading encoding
FileOk(registry) == [kind |-> "ok", reg |-> registry]

FileOf(k) == [kind |-> k, reg |-> <<>>]

FileKinds == {"absent", "ok", "empty", "malformed", "array", "unreadable", "undecodable"}

\* what _load_registry hands to its caller: the exception it lets through,
\* or the value it returns (a dict, or the list that json.load produced)
Returned(isDict, registry) == [exc |-> "none", dict |-> isDict, reg |-> registry]

Raised(e) == [exc |-> e, dict |-> FALSE, reg |-> <<>>]

_load_registry(f) ==
    CASE f.kind = "absent"      -> Returned(TRUE, <<>>)
      [] f.kind = "ok"          -> Returned(TRUE, f.reg)
      [] f.kind = "array"       -> Returned(FALSE, <<>>)
      [] f.kind = "empty"       -> Returned(TRUE, <<>>)
      [] f.kind = "malformed"   -> Returned(TRUE, <<>>)
      [] f.kind = "unreadable"  -> Returned(TRUE, <<>>)
      [] f.kind = "undecodable" -> Raised("UnicodeDecodeError")

\* how the write of one _save_registry call goes
SaveEnvs == {"ok", "open_fails", "write_fails"}

\* the backing record after _save_registry(registry); an OSError is logged
_save_registry(f, registry, env) ==
    CASE env = "ok"          -> FileOk(registry)
      [] env = "open_fails"  -> f
      [] env = "write_fails" -> FileOf("empty")

\* an initialisation that writes the empty registry whatever it finds
EnsureAlwaysSaves(f, env) == _save_registry(f, <<>>, env)

\* the backing record after _ensure_data_dir(): the empty registry is saved
\* when the file does not exist
_ensure_data_dir(f, env) ==
    IF f.kind = "absent" THEN _save_registry(f, <<>>, env) ELSE f

----------------------------------------------------------------------------
(* Registration API *)

\* a scan that stops one item early
ShortNameConflictStopsEarly(registry, r) ==
    /\ Truthy(r.short_name)
    /\ \E i \in 1..(Len(registry) - 1) :
          /\ registry[i].key # r.module_name
          /\ registry[i].val.short_name = r.short_name

\* a scan that compares the short_name with the keys of the registry
ShortNameConflictOnKeys(registry, r) ==
    /\ Truthy(r.short_name)
    /\ \E i \in 1..Len(registry) :
          /\ registry[i].key # r.module_name
          /\ registry[i].key = r.short_name

\* a scan that does not skip the entry of the module itself
ShortNameConflictWithSelf(registry, r) ==
    /\ Truthy(r.short_name)
    /\ \E i \in 1..Len(registry) : registry[i].val.short_name = r.short_name

\* the scan of register_module for another key holding the same short_name
ShortNameConflict(registry, r) ==
    /\ Truthy(r.short_name)
    /\ \E i \in 1..Len(registry) :
          /\ registry[i].key # r.module_name
          /\ registry[i].val.short_name = r.short_name

\* a registration that stores the cleared short name but leaves the caller's
\* object as it was given
RegisterKeepsCallerObject(f, r, env) ==
    LET ld == _load_registry(f)
    IN  IF ld.exc # "none"
          THEN [file |-> f, ret |-> FALSE, exc |-> ld.exc, reg |-> r]
        ELSE IF ~ld.dict
          THEN [file |-> f, ret |-> FALSE,
                exc |-> IF Truthy(r.short_name) THEN "AttributeError" ELSE "TypeError",
                reg |-> r]
        ELSE
          LET r2 == IF ShortNameConflict(ld.reg, r)
                      THEN [r EXCEPT !.short_name = None]
                      ELSE r
              registry == SetItem(ld.reg, r.module_name, ModuleToDict(r2))
          IN  [file |-> _save_registry(f, registry, env),
               ret |-> TRUE, exc |-> "none", reg |-> r]

\* register_module(registration) on backing record f: the record afterwards,
\* the value returned, the exception let through, and the caller's
\* registration object afterwards
register_module(f, r, env) ==
    LET ld == _load_registry(f)
    IN  IF ld.exc # "none"
          THEN [file |-> f, ret |-> FALSE, exc |-> ld.exc, reg |-> r]
        ELSE IF ~ld.dict
          THEN [file |-> f, ret |-> FALSE,
                exc |-> IF Truthy(r.short_name) THEN "AttributeError" ELSE "TypeError",
                reg |-> r]
        ELSE
          LET r2 == IF ShortNameConflict(ld.reg, r)
                      THEN [r EXCEPT !.short_name = None]
                      ELSE r
              registry == SetItem(ld.reg, r.module_name, ModuleToDict(r2))
          IN  [file |-> _save_registry(f, registry, env),
               ret |-> TRUE, exc |-> "none", reg |-> r2]

\* unregister_module(module_name) on backing record f
unregister_module(f, name, env) ==
    LET ld == _load_registry(f)
    IN  IF ld.exc # "none"
          THEN [file |-> f, ret |-> FALSE, exc |-> ld.exc]
        ELSE IF ld.dict /\ HasKey(ld.reg, name)
          THEN [file |-> _save_registry(f, DelItem(ld.reg, name), env),
                ret |-> TRUE, exc |-> "none"]
        ELSE [file |-> f, ret |-> FALSE, exc |-> "none"]

----------------------------------------------------------------------------
(* Handler resolver and dispatcher *)

\* the position of the last ":" of a handler string, 0 when it has none
LastSep(h) ==
    IF \E i \in 1..Len(h) : h[i] = ":"
      THEN CHOOSE i \in 1..Len(h) :
              h[i] = ":" /\ \A j \in (i + 1)..Len(h) : h[j] # ":"
      ELSE 0

\* the modules the interpreter can import, and the attributes they have
ModuleTable(locator) == IF locator = <<"m">> THEN {<<"f">>} ELSE {}

Importable(locator) == ModuleTable(locator) # {}

\* how the import of an importable module goes: "ok", or "crash" when the
\* code of the module raises while it is imported
ImportEnvs == {"ok", "crash"}

RefEmptyLocator == <<":", "f">>
RefRelative == <<".", "m", ":", "f">>
RefNoModule == <<"n", ":", "f">>
RefNoSymbol == <<"m", ":", "g">>

\* the handler strings handed to resolve_handler
HandlerRefs ==
    {RefPlain, RefOne, RefTwo, RefEmptyLocator, RefRelative, RefNoModule, RefNoSymbol}

ResolveResult(exc, found, imported, locator, symbol) ==
    [exc |-> exc, found |-> found, imported |-> imported,
     locator |-> locator, symbol |-> symbol]

\* resolve_handler(handler_path): the exception let through, whether a
\* callable was returned, whether a module was imported, and the two parts
\* rsplit gave.  import_module raises ValueError for an empty name,
\* TypeError for a relative name (no package is given) and
\* ModuleNotFoundError for a name it does not find.
resolve_handler(h, imp) ==
    LET i == LastSep(h)
        locator == SubSeq(h, 1, i - 1)
        symbol == SubSeq(h, i + 1, Len(h))
    IN  IF i = 0
          THEN ResolveResult("none", FALSE, FALSE, <<>>, <<>>)
        ELSE IF locator = <<>>
          THEN ResolveResult("none", FALSE, FALSE, locator, symbol)
        ELSE IF locator[1] = "."
          THEN ResolveResult("TypeError", FALSE, FALSE, locator, symbol)
        ELSE IF ~Importable(locator)
          THEN ResolveResult("none", FALSE, FALSE, locator, symbol)
        ELSE IF imp = "crash"
          THEN ResolveResult("RuntimeError", FALSE, TRUE, locator, symbol)
        ELSE ResolveResult("none", symbol \in ModuleTable(locator), TRUE, locator, symbol)

\* what a call of the handler does
ReturnsNone == [kind |-> "None", value |-> 0]

HandlerOutcomes ==
    { ReturnsNone,
      [kind |-> "Int", value |-> 0],
      [kind |-> "Int", value |-> 3],
      [kind |-> "NotInt", value |-> 0],
      [kind |-> "Exception", value |-> 0],
      [kind |-> "SystemExit", value |-> 0] }

NoOutcome == [kind |-> "none", value |-> 0]

\* the values of args.module and args.command
ModuleTokens == {None, "a", "x", "y"}

CommandTokens == {None, "run", "go"}

\* the index of the entry the loop over registry.values() stops at, 0 when
\* it runs to its end
FindModule(registry, token) ==
    LET hit(i) == \/ registry[i].val.module_name = token
                  \/ registry[i].val.short_name = token
    IN  IF \E i \in 1..Len(registry) : hit(i)
          THEN CHOOSE i \in 1..Len(registry) : hit(i) /\ \A j \in 1..(i - 1) : ~hit(j)
          ELSE 0

\* the index of the first command of that name, 0 when there is none
FindCommand(commands, token) ==
    IF \E i \in 1..Len(commands) : commands[i].name = token
      THEN CHOOSE i \in 1..Len(commands) :
              commands[i].name = token /\ \A j \in 1..(i - 1) : commands[j].name # token
      ELSE 0

\* the gates of dispatch in the order of the code: args.module, the load
\* of the registry, the module loop, args.command, the command loop,
\* resolve_handler, and the call of the handler
GateOrder == <<"module", "load", "entry", "command", "cmd_entry", "resolve", "invoke">>

Gates(n) == SubSeq(GateOrder, 1, n)

\* gates: the gates the call came to, in the order it came to them
DispatchResult(code, exc, entry, handler, imported, invoked, gates) ==
    [code |-> code, exc |-> exc, entry |-> entry, handler |-> handler,
     imported |-> imported, invoked |-> invoked, gates |-> gates]

\* the end of dispatch: the handler is called and int() is applied
Invoke(entry, handler, outcome) ==
    CASE outcome.kind = "None"       -> DispatchResult(0, "none", entry, handler, TRUE, 1, Gates(7))
      [] outcome.kind = "Int"        -> DispatchResult(outcome.value, "none", entry, handler, TRUE, 1, Gates(7))
      [] outcome.kind = "NotInt"     -> DispatchResult(1, "none", entry, handler, TRUE, 1, Gates(7))
      [] outcome.kind = "Exception"  -> DispatchResult(1, "none", entry, handler, TRUE, 1, Gates(7))
      [] outcome.kind = "SystemExit" -> DispatchResult(-1, "SystemExit", entry, handler, TRUE, 1, Gates(7))

\* dispatch(args) on backing record f: the exit code returned (-1 when the
\* call does not return), the exception let through, the key of the module
\* entry selected, the handler string resolved, whether a module was
\* imported, how often a handler was called and the gates passed through
dispatch(f, module, command, imp, outcome) ==
    LET ld == _load_registry(f)
        m == FindModule(ld.reg, module)
        data == ld.reg[m].val
        c == FindCommand(data.commands, command)
        h == data.commands[c].handler
        res == resolve_handler(h, imp)
    IN  IF ~Truthy(module)
          THEN DispatchResult(1, "none", None, <<>>, FALSE, 0, Gates(1))
        ELSE IF ld.exc # "none"
          THEN DispatchResult(-1, ld.exc, None, <<>>, FALSE, 0, Gates(2))
        ELSE IF ~ld.dict
          THEN DispatchResult(-1, "AttributeError", None, <<>>, FALSE, 0, Gates(3))
        ELSE IF m = 0
          THEN DispatchResult(1, "none", None, <<>>, FALSE, 0, Gates(3))
        ELSE IF ~Truthy(command)
          THEN DispatchResult(1, "none", ld.reg[m].key, <<>>, FALSE, 0, Gates(4))
        ELSE IF c = 0
          THEN DispatchResult(1, "none", ld.reg[m].key, <<>>, FALSE, 0, Gates(5))
        ELSE IF res.exc # "none"
          THEN DispatchResult(-1, res.exc, ld.reg[m].key, h, res.imported, 0, Gates(6))
        ELSE IF ~res.found
          THEN DispatchResult(1, "none", ld.reg[m].key, h, res.imported, 0, Gates(6))
        ELSE Invoke(ld.reg[m].key, h, outcome)

----------------------------------------------------------------------------
(* The operations as steps of one process *)

\* replaced: the entry the operation found under its key, if any
\* isDict, value: what a load returned
NoOp ==
    [op |-> "init", reg |-> NoRegistration, regAfter |-> NoRegistration,
     replaced |-> NoRegistration, name |-> None, command |-> None, env |-> "ok",
     ret |-> FALSE, code |-> -1, exc |-> "none",
     isDict |-> TRUE, value |-> <<>>,
     entry |-> None, handler |-> <<>>, invoked |-> 0, outcome |-> NoOutcome,
     gates |-> <<>>, locator |-> <<>>, symbol |-> <<>>, arg_data |-> <<>>]

\* the registry a load of the backing record gives when it gives one
Stored(f) == _load_registry(f).reg

\* the entry stored under key k, if any
Found(f, k) == IF HasKey(Stored(f), k) THEN GetItem(Stored(f), k) ELSE NoRegistration

\* the model keeps at most MaxModules modules in the registry
Room(r) == HasKey(Stored(file), r.module_name) \/ Len(Stored(file)) < MaxModules

Register(r, env) ==
    /\ Room(r)
    /\ LET out == register_module(file, r, env)
       IN  /\ file' = out.file
           /\ last' = [NoOp EXCEPT !.op = "register", !.reg = r, !.regAfter = out.reg,
                                   !.replaced = Found(file, r.module_name),
                                   !.env = env, !.ret = out.ret, !.exc = out.exc]
    /\ UNCHANGED procs

Unregister(name, env) ==
    /\ LET out == unregister_module(file, name, env)
       IN  /\ file' = out.file
           /\ last' = [NoOp EXCEPT !.op = "unregister", !.name = name,
                                   !.replaced = Found(file, name),
                                   !.env = env, !.ret = out.ret, !.exc = out.exc]
    /\ UNCHANGED procs

\* the ways the import can go in dispatch(args): only "ok" when the call
\* imports nothing
ImportChoices(module, command) ==
    IF dispatch(file, module, command, "ok", ReturnsNone).imported
      THEN ImportEnvs
      ELSE {"ok"}

\* the ways the handler can behave in dispatch(args): only NoOutcome when
\* the call does not come to the handler
OutcomeChoices(module, command, imp) ==
    IF dispatch(file, module, command, imp, ReturnsNone).invoked = 1
      THEN HandlerOutcomes
      ELSE {NoOutcome}

\* dispatch(args); imp and outcome say how the import and the handler go
Dispatch(module, command, imp, outcome) ==
    /\ LET out == dispatch(file, module, command, imp,
                           IF outcome = NoOutcome THEN ReturnsNone ELSE outcome)
       IN  last' = [NoOp EXCEPT !.op = "dispatch", !.name = module,
                                !.command = command, !.env = imp,
                                !.code = out.code, !.exc = out.exc,
                                !.entry = out.entry, !.handler = out.handler,
                                !.invoked = out.invoked, !.outcome = outcome,
                                !.gates = out.gates]
    /\ UNCHANGED <<file, procs>>

\* the values Python takes as false among those a stored argument holds
Falsy == {None, "", "[]", "False"}

\* the record has the key and a truthy value under it
HasTruthy(arg_data, k) == k \in DOMAIN arg_data /\ arg_data[k] \notin Falsy

\* the keys of type_map
TypeMap == {"str", "int", "float", "bool"}

\* arg_data.get(k, default)
GetOr(arg_data, k, default) == IF k \in DOMAIN arg_data THEN arg_data[k] ELSE default

AddArgumentCall(positional, flags, kwargs) ==
    [positional |-> positional, flags |-> flags, kwargs |-> kwargs]

\* a construction that passes required for positionals as well
AddArgumentAlwaysRequired(arg_data) ==
    LET name == arg_data.name
        short == GetOr(arg_data, "short", None)
        is_positional == ~StartsWithDash(name)
        keys == {k \in {"help"} : k \in DOMAIN arg_data}
                \cup {k \in {"default"} : k \in DOMAIN arg_data /\ arg_data[k] # None}
                \cup {k \in {"nargs", "choices", "action"} : HasTruthy(arg_data, k)}
                \cup {k \in {"type"} : /\ ~HasTruthy(arg_data, "action")
                                        /\ GetOr(arg_data, "type", "str") \in TypeMap}
                \cup {"required"}
        kwargs == [k \in keys |->
                     CASE k = "type" -> GetOr(arg_data, "type", "str")
                       [] k = "required" -> GetOr(arg_data, "required", "False")
                       [] OTHER -> arg_data[k]]
    IN  IF is_positional THEN AddArgumentCall(TRUE, <<name>>, kwargs)
        ELSE IF short \notin Falsy THEN AddArgumentCall(FALSE, <<short, name>>, kwargs)
        ELSE AddArgumentCall(FALSE, <<name>>, kwargs)

\* _add_argument(parser, arg_data): the call of parser.add_argument it
\* makes; a converter of type_map is written as its key
_add_argument(arg_data) ==
    LET name == arg_data.name
        short == GetOr(arg_data, "short", None)
        is_positional == ~StartsWithDash(name)
        keys == {k \in {"help"} : k \in DOMAIN arg_data}
                \cup {k \in {"default"} : k \in DOMAIN arg_data /\ arg_data[k] # None}
                \cup {k \in {"nargs", "choices", "action"} : HasTruthy(arg_data, k)}
                \cup {k \in {"type"} : /\ ~HasTruthy(arg_data, "action")
                                        /\ GetOr(arg_data, "type", "str") \in TypeMap}
                \cup {k \in {"required"} : ~is_positional}
        kwargs == [k \in keys |->
                     CASE k = "type" -> GetOr(arg_data, "type", "str")
                       [] k = "required" -> GetOr(arg_data, "required", "False")
                       [] OTHER -> arg_data[k]]
    IN  IF is_positional THEN AddArgumentCall(TRUE, <<name>>, kwargs)
        ELSE IF short \notin Falsy THEN AddArgumentCall(FALSE, <<short, name>>, kwargs)
        ELSE AddArgumentCall(FALSE, <<name>>, kwargs)

\* the tokens add_parser enters into the name map for an entry: the module
\* name and, when the short name is truthy, the alias
ParserTokens(data) ==
    {data.module_name} \cup (IF Truthy(data.short_name) THEN {data.short_name} ELSE {})

\* argparse of Python 3.11 and later refuses a subparser name or alias that
\* is in the name map already; earlier versions let the later parser take
\* the token
ArgparseKinds == {"rejects_conflicts", "overwrites"}

SubparserConflict(registry) ==
    \E i, j \in 1..Len(registry) :
        i < j /\ ParserTokens(registry[i].val) \cap ParserTokens(registry[j].val) # {}

\* the entry whose parser the name map holds for a token, 0 when none
ParserOf(registry, token) ==
    LET owns(i) == token \in ParserTokens(registry[i].val)
    IN  IF \E i \in 1..Len(registry) : owns(i)
          THEN CHOOSE i \in 1..Len(registry) :
                  owns(i) /\ \A j \in (i + 1)..Len(registry) : ~owns(j)
          ELSE 0

\* an argument the command line must supply: a positional, or an option
\* stored as required
MustBeGiven(arg_data) ==
    IF ~StartsWithDash(arg_data.name)
      THEN "nargs" \notin DOMAIN arg_data
      ELSE arg_data.required = "True"

\* build_parser().parse_args([module, command]) with the tokens that are not
\* None: the exception let through and the attributes of the namespace
ParseResult(exc, ns) == [exc |-> exc, ns |-> ns]

parse_args(f, module, command, argparse) ==
    LET ld == _load_registry(f)
        m == ParserOf(ld.reg, module)
        data == ld.reg[m].val
        c == FindCommand(data.commands, command)
    IN  IF ld.exc # "none"
          THEN ParseResult(ld.exc, <<>>)
        ELSE IF ~ld.dict
          THEN ParseResult("AttributeError", <<>>)
        ELSE IF SubparserConflict(ld.reg) /\ argparse = "rejects_conflicts"
          THEN ParseResult("ArgumentError", <<>>)
        ELSE IF module = None
          THEN ParseResult("none", [module |-> None])
        ELSE IF m = 0
          THEN ParseResult("SystemExit", <<>>)
        ELSE IF command = None
          THEN ParseResult("none", [module |-> module, command |-> None])
        ELSE IF c = 0
          THEN ParseResult("SystemExit", <<>>)
        ELSE IF \E i \in 1..Len(data.commands[c].args) :
                    MustBeGiven(data.commands[c].args[i])
          THEN ParseResult("SystemExit", <<>>)
        ELSE ParseResult("none", [module |-> module, command |-> command])

\* one parse of a command line by the parser build_parser returns
Parse(module, command, argparse) ==
    /\ module = None => command = None
    /\ LET out == parse_args(file, module, command, argparse)
           ld == _load_registry(file)
           m == ParserOf(ld.reg, module)
       IN  last' = [NoOp EXCEPT !.op = "parse", !.name = module,
                                !.command = command, !.env = argparse,
                                !.exc = out.exc, !.value = out.ns,
                                !.entry = IF m = 0 THEN None
                                          ELSE ld.reg[m].val.module_name]
    /\ UNCHANGED <<file, procs>>

\* resolve_handler(handler_path); imp says how the import goes
Resolve(h, imp) ==
    /\ LET res == resolve_handler(h, imp)
       IN  /\ res.imported \/ imp = "ok"
           /\ last' = [NoOp EXCEPT !.op = "resolve", !.handler = h, !.env = imp,
                                   !.exc = res.exc, !.ret = res.found,
                                   !.locator = res.locator, !.symbol = res.symbol]
    /\ UNCHANGED <<file, procs>>

\* get_registry(): one call of _load_registry
Load ==
    /\ LET ld == _load_registry(file)
       IN  last' = [NoOp EXCEPT !.op = "load", !.exc = ld.exc,
                                !.isDict = ld.dict, !.value = ld.reg]
    /\ UNCHANGED <<file, procs>>

\* list_modules(): the keys of the loaded registry
list_modules(f) == Keys(_load_registry(f).reg)

ListModules ==
    /\ last' = [NoOp EXCEPT !.op = "list", !.value = list_modules(file)]
    /\ UNCHANGED <<file, procs>>

\* CLIManager() is constructed: _ensure_data_dir() runs; name records what
\* kind of backing record it found
EnsureDataDir(env) ==
    /\ file' = _ensure_data_dir(file, env)
    /\ last' = [NoOp EXCEPT !.op = "ensure", !.name = file.kind, !.env = env]
    /\ UNCHANGED procs

\* the backing record is a file other programs can remove, overwrite or
\* protect: it comes into one of the states that _load_registry tells apart
DamageKinds == FileKinds \ {"ok", "empty"}

Damage(k) ==
    /\ file.kind # k
    /\ file' = FileOf(k)
    /\ last' = [NoOp EXCEPT !.op = "damage"]
    /\ UNCHANGED procs

----------------------------------------------------------------------------
(* The operations as steps of several processes sharing the backing record *)

Procs == {"p1", "p2"}

\* pc: "idle", or the next step of the call: "load" (_load_registry),
\*     "open" (open(file, "w") in _save_registry), "write" (json.dump and
\*     the close of the file)
\* registry: the local variable registry of the call
\* before: the backing record as the open of this call's save found it
\* first, start, peer: whether no other call was running when the call was
\*     made, the backing record at that time if so, whether another call
\*     was made while this one was running (kept for two racing
\*     register_module calls)
Idle ==
    [pc |-> "idle", op |-> "none", reg |-> NoRegistration, name |-> None,
     registry |-> <<>>, before |-> FileOk(<<>>),
     start |-> FileOk(<<>>), first |-> FALSE, peer |-> FALSE]

ConcRegistrations ==
    { r \in Registrations :
        /\ r.description = "v1"
        /\ r.short_name \in {None, "x"}
        /\ r.module_name \in {"a", "b"} }

Step(p, name) == [NoOp EXCEPT !.op = name, !.name = p]

\* a process calls register_module(r)
BeginRegister(p, r) ==
    /\ procs[p].pc = "idle"
    /\ procs' = [procs EXCEPT ![p] = [Idle EXCEPT !.pc = "load", !.op = "register", !.reg = r]]
    /\ last' = Step(p, "begin")
    /\ UNCHANGED file

\* a process calls unregister_module(n)
BeginUnregister(p, n) ==
    /\ procs[p].pc = "idle"
    /\ procs' = [procs EXCEPT ![p] = [Idle EXCEPT !.pc = "load", !.op = "unregister", !.name = n]]
    /\ last' = Step(p, "begin")
    /\ UNCHANGED file

\* a process calls get_registry()
BeginGet(p) ==
    /\ procs[p].pc = "idle"
    /\ procs' = [procs EXCEPT ![p] = [Idle EXCEPT !.pc = "load", !.op = "get"]]
    /\ last' = Step(p, "begin")
    /\ UNCHANGED file

\* register_module from its load to the call of _save_registry
RegisterLoad(p) ==
    /\ procs[p].pc = "load"
    /\ procs[p].op = "register"
    /\ LET ld == _load_registry(file)
           r == procs[p].reg
           r2 == IF ShortNameConflict(ld.reg, r)
                   THEN [r EXCEPT !.short_name = None]
                   ELSE r
       IN  procs' = [procs EXCEPT ![p].pc = "open", ![p].reg = r2,
                       ![p].registry = SetItem(ld.reg, r.module_name, ModuleToDict(r2))]
    /\ last' = Step(p, "loaded")
    /\ UNCHANGED file

\* unregister_module from its load to the call of _save_registry, or to
\* its return when the module is not registered
UnregisterLoad(p) ==
    /\ procs[p].pc = "load"
    /\ procs[p].op = "unregister"
    /\ LET ld == _load_registry(file)
           n == procs[p].name
       IN  IF HasKey(ld.reg, n)
             THEN /\ procs' = [procs EXCEPT ![p].pc = "open",
                                            ![p].registry = DelItem(ld.reg, n)]
                  /\ last' = Step(p, "loaded")
             ELSE /\ procs' = [procs EXCEPT ![p] = Idle]
                  /\ last' = [Step(p, "unregister") EXCEPT !.ret = FALSE]
    /\ UNCHANGED file

\* get_registry: the load, and the return of what it gave
GetLoad(p) ==
    /\ procs[p].pc = "load"
    /\ procs[p].op = "get"
    /\ LET ld == _load_registry(file)
       IN  last' = [Step(p, "get") EXCEPT !.exc = ld.exc, !.isDict = ld.dict,
                                         !.value = ld.reg]
    /\ procs' = [procs EXCEPT ![p] = Idle]
    /\ UNCHANGED file

\* _save_registry: open(file, "w") leaves a file of no bytes
SaveOpen(p) ==
    /\ procs[p].pc = "open"
    /\ file' = FileOf("empty")
    /\ procs' = [procs EXCEPT ![p].pc = "write", ![p].before = file]
    /\ last' = Step(p, "open")

\* _save_registry: json.dump fills the buffer of the file object and the
\* end of the with block flushes it; then the call returns true
SaveWrite(p) ==
    /\ procs[p].pc = "write"
    /\ file' = FileOk(procs[p].registry)
    /\ procs' = [procs EXCEPT ![p] = Idle]
    /\ last' = [Step(p, procs[p].op) EXCEPT !.ret = TRUE, !.regAfter = procs[p].reg]

\* modules a, b and x, without short names
RaceRegistrations ==
    { r \in Registrations : r.description = "v1" /\ r.short_name = None }

Running(q) == procs[q].pc \in {"load", "open", "write"}

\* a process calls register_module(r) while the other process may be inside
\* a call of its own
RaceBegin(p, r) ==
    /\ ~Running(p)
    /\ procs' = [q \in Procs |->
                   IF q = p
                     THEN [Idle EXCEPT !.pc = "load", !.op = "register", !.reg = r,
                                       !.start = IF \A o \in Procs \ {p} : ~Running(o)
                                                   THEN file ELSE FileOk(<<>>),
                                       !.first = \A o \in Procs \ {p} : ~Running(o)]
                     ELSE [procs[q] EXCEPT !.peer = @ \/ Running(q)]]
    /\ last' = Step(p, "begin")
    /\ UNCHANGED file

\* _save_registry of a racing call: json.dump and the close of the file,
\* then the call returns true; what the call was is kept
RaceWrite(p) ==
    /\ procs[p].pc = "write"
    /\ file' = FileOk(procs[p].registry)
    /\ procs' = [procs EXCEPT ![p] = [Idle EXCEPT !.pc = "done", !.reg = procs[p].reg,
                                                  !.start = procs[p].start,
                                                  !.first = procs[p].first,
                                                  !.peer = procs[p].peer]]
    /\ last' = [Step(p, procs[p].op) EXCEPT !.ret = TRUE, !.regAfter = procs[p].reg]

NextRace ==
    \/ \E p \in Procs, r \in RaceRegistrations : RaceBegin(p, r)
    \/ \E p \in Procs : RegisterLoad(p)
    \/ \E p \in Procs : SaveOpen(p)
    \/ \E p \in Procs : RaceWrite(p)

NextConc ==
    \/ \E p \in Procs, r \in ConcRegistrations : BeginRegister(p, r)
    \/ \E p \in Procs : BeginUnregister(p, "a")
    \/ \E p \in Procs : BeginGet(p)
    \/ \E p \in Procs : RegisterLoad(p)
    \/ \E p \in Procs : UnregisterLoad(p)
    \/ \E p \in Procs : GetLoad(p)
    \/ \E p \in Procs : SaveOpen(p)
    \/ \E p \in Procs : SaveWrite(p)

\* after CLIManager(): _ensure_data_dir has written the empty registry
Init ==
    /\ file = FileOk(<<>>)
    /\ last = NoOp
    /\ procs = [p \in Procs |-> Idle]

\* every module with no, an empty or the short name "x"; module b with "y"
SpecRegistrations ==
    { r \in Registrations :
        r.short_name = "y" => (r.module_name = "b" /\ r.description = "v1") }

Next ==
    \/ \E r \in SpecRegistrations : Register(r, "ok")
    \/ \E n \in ModuleNames : Unregister(n, "ok")
    \/ ListModules

Spec == Init /\ [][Next]_vars

\* the same operations on a backing record that can be damaged and on
\* storage whose writes can fail
StoreRegistrations ==
    { r \in Registrations : r.description = "v1" /\ r.short_name \in {None, "x"} }

NextStore ==
    \/ \E r \in StoreRegistrations, env \in SaveEnvs : Register(r, env)
    \/ \E n \in ModuleNames, env \in SaveEnvs : Unregister(n, env)
    \/ Load
    \/ \E k \in DamageKinds : Damage(k)
    \/ \E env \in SaveEnvs : EnsureDataDir(env)

SpecStore == Init /\ [][NextStore]_vars

SpecConc == Init /\ [][NextConc]_vars

SpecRace == Init /\ [][NextRace]_vars

\* registration, and dispatch on the registry it has built
DispatchRegistrations == { r \in Registrations : r.short_name \in {None, "x"} }

NextDispatch ==
    \/ \E r \in DispatchRegistrations : Register(r, "ok")
    \/ \E n \in ModuleNames : Unregister(n, "ok")
    \/ \E module \in ModuleTokens, command \in CommandTokens :
          \E imp \in ImportChoices(module, command) :
             \E outcome \in OutcomeChoices(module, command, imp) :
                Dispatch(module, command, imp, outcome)
    \/ \E h \in HandlerRefs, imp \in ImportEnvs : Resolve(h, imp)
    \/ \E module \in ModuleTokens, command \in CommandTokens, k \in ArgparseKinds :
          Parse(module, command, k)

SpecDispatch == Init /\ [][NextDispatch]_vars

----------------------------------------------------------------------------
(* The schema functions applied to the objects a module may hand over *)

RECURSIVE ArgLists(_)
\* the argument lists of at most n sample arguments
ArgLists(n) ==
    IF n = 0 THEN {<<>>}
    ELSE ArgLists(n - 1) \cup
         { Append(l, a) : l \in {m \in ArgLists(n - 1) : Len(m) = n - 1},
                          a \in ArgSamples }

\* registrations of one module whose commands carry arguments
ArgRegistrations ==
    { [module_name |-> "a", short_name |-> s, description |-> "",
       commands |-> <<Cmd("run", RefOne, args)>>] :
         s \in {None, "x"}, args \in ArgLists(MaxArgs) }
    \cup
    { [module_name |-> "a", short_name |-> None, description |-> "",
       commands |-> <<Cmd("run", RefOne, <<a>>)>>] : a \in ArgInputs }

\* registration.to_dict(), as register_module calls it
Serialize(r) ==
    /\ last' = [NoOp EXCEPT !.op = "serialize", !.reg = r, !.value = ModuleToDict(r)]
    /\ UNCHANGED <<file, procs>>

\* _add_argument on the stored record of an argument, as build_parser
\* calls it
AddArgument(a) ==
    /\ LET arg_data == CommandArgToDict(a)
       IN  last' = [NoOp EXCEPT !.op = "add_argument", !.arg_data = arg_data,
                                !.value = _add_argument(arg_data)]
    /\ UNCHANGED <<file, procs>>

NextArgs ==
    \/ \E r \in ArgRegistrations : Serialize(r)
    \/ \E a \in ArgInputs : AddArgument(a)

SpecArgs == Init /\ [][NextArgs]_vars

----------------------------------------------------------------------------
(* Claims about the registration API, checked under Spec *)

Entries == Stored(file)

\* the last operation was a register_module call that found its short_name
\* held by another module
ConflictFound ==
    /\ last.op = "register"
    /\ Truthy(last.reg.short_name)
    /\ \E i \in 1..Len(Entries) :
          /\ Entries[i].key # last.reg.module_name
          /\ Entries[i].val.short_name = last.reg.short_name

\* C1 as stated: no two distinct registry entries hold the same non-null
\* short_name.
C1_NoSharedNonNullShortName ==
    \A i, j \in 1..Len(Entries) :
        (i # j /\ Entries[i].val.short_name # None)
            => Entries[i].val.short_name # Entries[j].val.short_name

\* C1 as amended: no two distinct registry entries hold the same non-null,
\* non-empty short_name (the empty string counts as no short name and may
\* be stored for several modules).
C1_NoSharedShortName ==
    \A i, j \in 1..Len(Entries) :
        (i # j /\ Truthy(Entries[i].val.short_name))
            => Entries[i].val.short_name # Entries[j].val.short_name

\* a registry of two modules with short names, reached by a registration
\* that asked for a short name already taken
C1_Witness ==
    /\ ConflictFound
    /\ last.regAfter.short_name = None
    /\ \E i \in 1..Len(Entries) : Entries[i].val.short_name = "x"
    /\ \E i \in 1..Len(Entries) : Entries[i].val.short_name # "x"

\* what C2 says of a step registering B = last'.reg while entry i holds the
\* short name B asks for
C2_Arbitrated(i) ==
    LET A == Stored(file)[i]
        B == last'.reg
    IN  /\ HasKey(Stored(file'), A.key)
        /\ GetItem(Stored(file'), A.key).short_name = A.val.short_name
        /\ HasKey(Stored(file'), B.module_name)
        /\ GetItem(Stored(file'), B.module_name).short_name = None
        /\ last'.ret = TRUE
        /\ last'.exc = "none"

\* C2 as stated: when A is stored with short_name x and B, of another
\* module_name, is registered with short_name x, A keeps x, B is stored with
\* short_name null and the call returns true.
C2_ArbitrationAnyShortName ==
    [][ \A i \in 1..Len(Stored(file)) :
          ( /\ last'.op = "register"
            /\ Stored(file)[i].key # last'.reg.module_name
            /\ Stored(file)[i].val.short_name # None
            /\ Stored(file)[i].val.short_name = last'.reg.short_name )
          => C2_Arbitrated(i) ]_vars

\* C2 as amended: the same for a non-empty short_name x.
C2_Arbitration ==
    [][ \A i \in 1..Len(Stored(file)) :
          ( /\ last'.op = "register"
            /\ Stored(file)[i].key # last'.reg.module_name
            /\ Truthy(Stored(file)[i].val.short_name)
            /\ Stored(file)[i].val.short_name = last'.reg.short_name )
          => C2_Arbitrated(i) ]_vars

\* B was registered with the short name "x" of A and is stored without it
C2_Witness ==
    /\ ConflictFound
    /\ last.reg.short_name = "x"
    /\ last.ret = TRUE
    /\ Found(file, last.reg.module_name).short_name = None
    /\ last.replaced = NoRegistration

\* C4: after register_module(r) the registry holds exactly one entry under
\* r.module_name, built from r (its description and its whole command
\* list), and the entries under the other keys are as before.
C4_Overwrite ==
    [][ last'.op = "register" =>
          LET k == last'.reg.module_name
              under == SelectSeq(file'.reg, LAMBDA it : it.key = k)
          IN  /\ file'.kind = "ok"
              /\ Len(under) = 1
              /\ under[1].val.module_name = k
              /\ under[1].val.short_name = last'.regAfter.short_name
              /\ under[1].val.description = last'.reg.description
              /\ under[1].val.commands = ModuleToDict(last'.reg).commands
              /\ SelectSeq(file'.reg, LAMBDA it : it.key # k)
                    = SelectSeq(file.reg, LAMBDA it : it.key # k) ]_vars

\* a module with other commands was registered again, next to another module
C4_Witness ==
    /\ last.op = "register"
    /\ last.replaced # NoRegistration
    /\ last.replaced.commands # ModuleToDict(last.reg).commands
    /\ last.replaced.description # last.reg.description
    /\ Len(Entries) >= 2

\* C5: registering the same registration once more, either as the caller
\* passed it or as the first call left it, does not change the stored
\* registry.
C5_Idempotent ==
    (last.op = "register" /\ last.exc = "none") =>
        /\ register_module(file, last.reg, "ok").file = file
        /\ register_module(file, last.regAfter, "ok").file = file

\* a registration with a taken short name was made twice in a row
C5_Witness ==
    /\ ConflictFound
    /\ last.replaced = ModuleToDict(last.regAfter)
    /\ last.reg.short_name # last.regAfter.short_name

\* C6: unregister_module(n) returns true exactly when n is a key of the
\* stored registry; then the entry of n is gone and the other entries are
\* unchanged, in their order; otherwise the stored registry is unchanged.
C6_Unregister ==
    [][ last'.op = "unregister" =>
          LET n == last'.name
              before == Stored(file)
              after == Stored(file')
          IN  /\ last'.ret = HasKey(before, n)
              /\ last'.ret =>
                    /\ ~HasKey(after, n)
                    /\ after = SelectSeq(before, LAMBDA it : it.key # n)
              /\ ~last'.ret => file' = file ]_vars

\* a registered module was unregistered and another module is still stored
C6_Witness ==
    /\ last.op = "unregister"
    /\ last.ret = TRUE
    /\ last.replaced # NoRegistration
    /\ Len(Entries) >= 1

\* C18: list_modules returns the keys of the stored registry, each once,
\* in insertion order: registering a new module puts it last, registering
\* a present module keeps every position, unregistering removes the module
\* and keeps the order of the others.
C18_InsertionOrder ==
    [][ LET before == Keys(Stored(file))
            after == Keys(Stored(file'))
            k == last'.reg.module_name
        IN  /\ last'.op = "list" =>
                  /\ last'.value = before
                  /\ \A i, j \in 1..Len(before) : before[i] = before[j] => i = j
            /\ last'.op = "register" =>
                  after = IF \E i \in 1..Len(before) : before[i] = k
                            THEN before ELSE Append(before, k)
            /\ last'.op = "unregister" =>
                  after = SelectSeq(before, LAMBDA n : n # last'.name) ]_vars

\* the listing gave two modules in an order that is not the alphabetical one
C18_Witness ==
    /\ last.op = "list"
    /\ last.value = <<"b", "a">>

\* C23: after register_module(r) has returned, r.short_name is the
\* short_name stored under r.module_name: None when r asked for a short
\* name that another module held, else as given; module_name, description
\* and commands of r are as given.
C23_CallerObject ==
    [][ last'.op = "register" =>
          LET r == last'.reg
              after == last'.regAfter
              stored == SelectSeq(file'.reg, LAMBDA it : it.key = r.module_name)
              held == \E i \in 1..Len(file.reg) :
                         /\ file.reg[i].key # r.module_name
                         /\ file.reg[i].val.short_name = r.short_name
          IN  /\ Len(stored) = 1
              /\ after.short_name = stored[1].val.short_name
              /\ after.short_name =
                    IF Truthy(r.short_name) /\ held THEN None ELSE r.short_name
              /\ after.module_name = r.module_name
              /\ after.description = r.description
              /\ after.commands = r.commands ]_vars

\* a registration asked for the short name of another module and came back
\* with none, as stored
C23_Witness ==
    /\ last.op = "register"
    /\ last.reg.short_name = "x"
    /\ last.regAfter.short_name = None
    /\ Found(file, last.reg.module_name).short_name = None
    /\ Len(Entries) = 2

\* C22: no entry's non-null short_name is the module_name of another entry,
\* and every token build_parser enters as a name or alias, and dispatch
\* takes as a selector, designates at most one entry.
C22_TokensUnambiguous ==
    \A i, j \in 1..Len(Entries) :
        i # j =>
            /\ Entries[i].val.short_name # None =>
                  Entries[i].val.short_name # Entries[j].val.module_name
            /\ ParserTokens(Entries[i].val) \cap ParserTokens(Entries[j].val) = {}

----------------------------------------------------------------------------
(* Claims about the registry store, checked under SpecStore *)

\* C7: whatever the state of the backing record, _load_registry returns to
\* its caller, and what it returns is a registry mapping: the stored one
\* when the record holds one, the empty one otherwise.
C7_LoadNeverRaises ==
    last.op = "load" =>
        /\ last.exc = "none"
        /\ last.isDict
        /\ last.value = (IF file.kind = "ok" THEN file.reg ELSE <<>>)

\* C8: whatever the state of the backing record and of storage,
\* register_module returns to its caller without raising, and returns true
\* when storage did not fail.
C8_RegisterNeverRaises ==
    last.op = "register" =>
        /\ last.exc = "none"
        /\ last.env = "ok" => last.ret = TRUE

\* C17: _ensure_data_dir leaves an existing backing record as it is,
\* whatever it holds; an absent one is created holding the empty registry
\* when storage works, and a load after the call returns the empty registry
\* in any case; a second call gives the state the first call gave.
C17_EnsureIdempotent ==
    [][ last'.op = "ensure" =>
          /\ file.kind # "absent" => file' = file
          /\ file.kind = "absent" =>
                /\ last'.env = "ok" => file' = FileOk(<<>>)
                /\ _load_registry(file').exc = "none"
                /\ _load_registry(file').dict
                /\ _load_registry(file').reg = <<>>
          /\ _ensure_data_dir(file', last'.env) = file' ]_vars

\* the manager was initialised on a backing record that holds a module
C17_Witness ==
    /\ last.op = "ensure"
    /\ last.name = "ok"
    /\ Len(file.reg) >= 1

\* C19: a register_module or unregister_module call on a valid backing
\* record whose save fails with an I/O error, before or after the file was
\* opened for writing, returns without raising and leaves the backing record
\* as it was, so that a load returns the prior registry.
C19_FailedSaveKeepsRecord ==
    [][ ( /\ last'.op \in {"register", "unregister"}
          /\ last'.env # "ok"
          /\ file.kind = "ok" )
        => /\ last'.exc = "none"
           /\ file' = file
           /\ _load_registry(file').reg = file.reg ]_vars

----------------------------------------------------------------------------
(* Claims about processes sharing the backing record, checked under SpecConc *)

\* the processes that are inside _save_registry, between its open and the
\* close of the file
Saving == { q \in Procs : procs[q].pc = "write" }

\* C3: a load performed while one other process is inside _save_registry
\* returns the complete registry stored before that save or the complete
\* registry being saved.
C3_ReaderSeesOldOrNew ==
    \A q \in Procs :
        (last.op = "get" /\ last.name # q /\ Saving = {q}) =>
            /\ last.exc = "none"
            /\ last.isDict
            /\ last.value \in {procs[q].before.reg, procs[q].registry}

\* C21: when two register_module calls for distinct modules A and B have
\* run concurrently and both have returned, every other module that was
\* registered when the first of them was made is still registered with the
\* same entry, and A or B is registered.
C21_RaceKeepsOthers ==
    \A p, q \in Procs :
        ( /\ p # q
          /\ procs[p].pc = "done" /\ procs[q].pc = "done"
          /\ procs[p].first /\ procs[p].peer /\ ~procs[q].first
          /\ procs[p].reg.module_name # procs[q].reg.module_name )
        => LET A == procs[p].reg.module_name
               B == procs[q].reg.module_name
               others(f) == SelectSeq(Stored(f), LAMBDA it : it.key \notin {A, B})
           IN  /\ file.kind = "ok"
               /\ \A i \in 1..Len(others(procs[p].start)) :
                     \E j \in 1..Len(Stored(file)) :
                         Stored(file)[j] = others(procs[p].start)[i]
               /\ HasKey(Stored(file), A) \/ HasKey(Stored(file), B)

----------------------------------------------------------------------------
(* Claims about dispatch, checked under SpecDispatch *)

\* C9: whatever the parsed arguments, the registry, the handler string and
\* the behaviour of the handler, dispatch returns an integer to its caller
\* and lets no failure through.
C9_DispatchReturnsCode ==
    last.op = "dispatch" =>
        /\ last.exc = "none"
        /\ last.code \in Int
        /\ last.code >= 0

\* the entries whose module_name, or whose short_name, is the token
NameMatches(token) == { i \in 1..Len(Entries) : Entries[i].val.module_name = token }

ShortMatches(token) == { i \in 1..Len(Entries) : Entries[i].val.short_name = token }

\* C10: dispatch uses the entry whose module_name is the selected token
\* when there is one, and an entry whose short_name is the token only when
\* no entry has that module_name.
C10_NameMatchPreferred ==
    (last.op = "dispatch" /\ last.exc = "none" /\ Truthy(last.name)) =>
        IF NameMatches(last.name) # {}
          THEN last.entry = last.name
        ELSE IF ShortMatches(last.name) # {}
          THEN \E i \in ShortMatches(last.name) : last.entry = Entries[i].key
        ELSE last.entry = None

\* C11: dispatch calls the handler at most once and only after every gate
\* was passed in the order of GateOrder; when a gate fails it returns exit
\* code 1, calls no handler and evaluates no later gate, and it does not
\* read the registry when no module was selected.
C11_GateOrder ==
    last.op = "dispatch" =>
        /\ last.invoked <= 1
        /\ \E n \in 1..Len(GateOrder) : last.gates = SubSeq(GateOrder, 1, n)
        /\ last.invoked = 1 <=> last.gates = GateOrder
        /\ last.gates # GateOrder => (last.code = 1 /\ last.exc = "none")
        /\ ~Truthy(last.name) => last.gates = <<"module">>

\* C12: when dispatch calls the handler, a handler returning no value gives
\* exit code 0, one returning an integer-convertible value v gives int(v),
\* and one that raises gives exit code 1.
C12_ExitCodeFromResult ==
    (last.op = "dispatch" /\ last.invoked = 1) =>
        CASE last.outcome.kind = "None" -> last.exc = "none" /\ last.code = 0
          [] last.outcome.kind = "Int" -> last.exc = "none" /\ last.code = last.outcome.value
          [] last.outcome.kind \in {"Exception", "SystemExit"} ->
                last.exc = "none" /\ last.code = 1
          [] OTHER -> TRUE

\* C13: for a registered module m with a non-null short_name mx and a
\* command c of m, dispatch selected by m and dispatch selected by mx
\* resolve the handler stored for c in the entry of m and give the same
\* exit code.
C13_AliasRoutesSame ==
    \A i \in 1..Len(Entries) :
        LET e == Entries[i].val
            c == FindCommand(e.commands, last.command)
            alias == dispatch(file, e.short_name, last.command, last.env,
                              IF last.outcome = NoOutcome THEN ReturnsNone ELSE last.outcome)
        IN  ( /\ last.op = "dispatch"
              /\ last.name = e.module_name
              /\ e.short_name # None
              /\ c # 0 )
            => /\ last.handler = e.commands[c].handler
               /\ alias.handler = e.commands[c].handler
               /\ alias.code = last.code
               /\ alias.exc = last.exc

\* C14: resolve_handler lets no failure through; it splits the string at
\* its last ":" into locator and symbol, and returns a callable exactly
\* when there is a separator, the locator can be imported and the located
\* module has the symbol.
C14_ResolveNeverRaises ==
    last.op = "resolve" =>
        LET h == last.handler
            i == LastSep(h)
        IN  /\ last.exc = "none"
            /\ i # 0 =>
                  /\ last.locator \o <<":">> \o last.symbol = h
                  /\ \A j \in 1..Len(last.symbol) : last.symbol[j] # ":"
            /\ last.ret = ( /\ i # 0
                            /\ Importable(last.locator)
                            /\ last.symbol \in ModuleTable(last.locator) )

\* the module a parse result identifies: its _cli_module attribute when it
\* has one, else the attribute the subparsers action writes
IdentifiedModule(ns) ==
    IF "_cli_module" \in DOMAIN ns THEN ns["_cli_module"] ELSE ns.module

\* C16: a successful parse of [m, c] or of [s, c], for a registered module
\* m with short name s and a command c of it, yields a result that
\* identifies the module as m and the command as c.
C16_ParseIdentifiesModule ==
    \A i \in 1..Len(Entries) :
        LET e == Entries[i].val
        IN  ( /\ last.op = "parse"
              /\ last.exc = "none"
              /\ last.name \in ParserTokens(e)
              /\ last.entry = e.module_name
              /\ FindCommand(e.commands, last.command) # 0 )
            => /\ IdentifiedModule(last.value) = e.module_name
               /\ last.value.command = last.command

----------------------------------------------------------------------------
(* Claims about the schema functions, checked under SpecArgs *)

\* C15: the record to_dict produces determines the registration: building
\* the dataclasses again from the record gives the registration back, and
\* no other registration has the same record.
C15_RoundTrip ==
    last.op = "serialize" =>
        /\ ModuleFromDict(last.value) = last.reg
        /\ \A r \in ArgRegistrations : ModuleToDict(r) = last.value => r = last.reg

\* a registration whose argument has fields of value None, an empty short
\* alias and an empty choices list was serialized, and its record omits
\* exactly the None fields
C15_Witness ==
    /\ last.op = "serialize"
    /\ Len(last.reg.commands[1].args) = 1
    /\ last.reg.commands[1].args[1].short = ""
    /\ last.reg.commands[1].args[1].choices = "[]"
    /\ last.reg.commands[1].args[1].nargs = None
    /\ DOMAIN last.value.commands[1].args[1] = ArgFields \ {"nargs", "default", "action"}

\* C20 as stated: positional exactly without a leading dash, required
\* passed exactly for non-positionals, a type converter passed exactly when
\* no action is set, the short alias attached exactly when it is set and
\* the argument is not positional.
C20_TypeWheneverNoAction ==
    last.op = "add_argument" =>
        LET d == last.arg_data
            call == last.value
        IN  /\ call.positional <=> ~StartsWithDash(d.name)
            /\ "required" \in DOMAIN call.kwargs <=> ~call.positional
            /\ "type" \in DOMAIN call.kwargs <=> ~HasTruthy(d, "action")
            /\ Len(call.flags) = 2 <=> (HasTruthy(d, "short") /\ ~call.positional)

\* C20: positional exactly without a leading dash, required passed exactly
\* for non-positionals, a type converter passed exactly when no action is
\* set and the type is one of str, int, float, bool (never together with an
\* action), the short alias attached before the name exactly when it is set
\* and the argument is not positional.
C20_Descriptor ==
    last.op = "add_argument" =>
        LET d == last.arg_data
            call == last.value
        IN  /\ call.positional <=> ~StartsWithDash(d.name)
            /\ "required" \in DOMAIN call.kwargs <=> ~call.positional
            /\ "type" \in DOMAIN call.kwargs <=>
                  (~HasTruthy(d, "action") /\ d.type \in {"str", "int", "float", "bool"})
            /\ "action" \in DOMAIN call.kwargs <=> HasTruthy(d, "action")
            /\ call.flags = IF HasTruthy(d, "short") /\ ~call.positional
                              THEN <<d.short, d.name>> ELSE <<d.name>>

\* a positional argument of a known type with a short alias and no action
\* was declared: by its name alone, with a converter and without required
C20_Witness ==
    /\ last.op = "add_argument"
    /\ last.arg_data.name = NamePositional
    /\ HasTruthy(last.arg_data, "short")
    /\ last.value.flags = <<NamePositional>>
    /\ DOMAIN last.value.kwargs = {"help", "type"}

====
